---- MODULE Spec2Model ----
(***************************************************************************)
(* A model of the survey-to-feature pipeline of japan_market_analysis:     *)
(*   process_raw_data.py              (recode, composites, respondent ids) *)
(*   sem_penalized_logistic_topbox.py (top-box coding, penalized fits)     *)
(*   full_sem_with_benefits.py, brand_benefit_factor_analysis.py,          *)
(*   brand_benefit_cluster_analysis.py, sem_analysis_real_data.py          *)
(*   dbt_project/scripts/extract_tdl_data.py (positional column mapper)    *)
(*                                                                         *)
(* Numbers.  A missing value (np.nan) is the value NaN.  The rescaled      *)
(* 1-7 values of process_raw_data.py are multiples of 1/2; they are kept   *)
(* as integers counting halves (Half(3) = 6 stands for 3.0).               *)
(***************************************************************************)
EXTENDS Integers, Sequences, FiniteSets

VARIABLES
    \* ---- recode_funnel_variable, one call
    value, var_type, recoded, rc_pc,
    \* ---- top-box coding of one cell (sem_penalized_logistic_topbox.py)
    tb_kind, tb_raw, raw_vals, tb_val, tb_pc,
    \* ---- compute_benefit_scores on one respondent row
    bs_row, bs_columns, bs_results, bs_pc,
    \* ---- process_raw_data
    raw_df, processed, csv, pr_pc,
    \* ---- sem_analysis on the table process_raw_data saved
    sem_models,
    \* ---- the analysis scripts (one run of one script)
    script, data, analysis_df, samples, calls, fitres, log, segment_results,
    segments_left, factor_cols, pc,
    \* ---- extract_tdl_data
    input_rows, reader, respondent_id, respondent_rows, survey_csv, ex_pc,
    decodable, enc, infile, ex_error, dict_rows,
    \* ---- single steps of the scripts, each applied to its own input
    step, input, output

rcVars == <<value, var_type, recoded, rc_pc>>
tbVars == <<tb_kind, tb_raw, raw_vals, tb_val, tb_pc>>
bsVars == <<bs_row, bs_columns, bs_results, bs_pc>>
prVars == <<raw_df, processed, csv, pr_pc, sem_models>>
scVars == <<script, data, analysis_df, samples, calls, fitres, log,
           segment_results, segments_left, factor_cols, pc>>
exVars == <<input_rows, reader, respondent_id, respondent_rows, survey_csv, ex_pc,
           decodable, enc, infile, ex_error, dict_rows>>
stVars == <<step, input, output>>
vars == <<rcVars, tbVars, bsVars, prVars, scVars, exVars, stVars>>

-----------------------------------------------------------------------------
(* Values                                                                  *)

\* np.nan, the missing marker (no survey code is this number)
NaN == -1000

\* pd.isna(x)
IsNa(x) == x = NaN

\* largest raw code drawn for a rating cell; the codes run from MinRaw to MaxRaw
MaxRaw == 100
MinRaw == 0 - 1
RawCodes == MinRaw..MaxRaw
RawCells == RawCodes \cup {NaN}

\* float(v), counted in halves
Half(v) == 2 * v

-----------------------------------------------------------------------------
(* process_raw_data.py : recode_funnel_variable                            *)

\* (value - 1) * 1.5 + 1, counted in halves
Rescale17(v) == 3 * (v - 1) + 2

recode_funnel_variable(v, vt) ==
    IF IsNa(v) \/ v = 99 THEN NaN
    ELSE IF vt = "likert" /\ v <= 5 THEN Rescale17(v)
    ELSE Half(v)

VarTypes == {"likert", "other"}

rcIdle == /\ value = NaN
          /\ var_type = "likert"
          /\ recoded = NaN
          /\ rc_pc = "idle"

rcInit == /\ value \in RawCells
          /\ var_type \in VarTypes
          /\ recoded = NaN
          /\ rc_pc = "call"

\* one call of recode_funnel_variable(value, var_type)
Recode == /\ rc_pc = "call"
          /\ recoded' = recode_funnel_variable(value, var_type)
          /\ rc_pc' = "done"
          /\ UNCHANGED <<value, var_type>>
          /\ UNCHANGED <<tbVars, bsVars, prVars, scVars, exVars, stVars>>

-----------------------------------------------------------------------------
(* sem_penalized_logistic_topbox.py : top-box coding of one cell           *)

\* raw_vals[(raw_vals < 1) | (raw_vals > 5)] = np.nan ; a comparison with
\* NaN is False, so a missing cell stays missing
\* mutant: only the upper end of the range is cleaned
CleanRange_UpperOnly(v) == IF IsNa(v) THEN NaN
                           ELSE IF v > 5 THEN NaN
                           ELSE v

CleanRange(v) == IF IsNa(v) THEN NaN
                 ELSE IF v < 1 \/ v > 5 THEN NaN
                 ELSE v

\* (raw_vals == 5).astype(float) ; NaN == 5 is False
\* mutant: every valid answer counts as top box
TopBox_AnyAnswer(v) == IF (~IsNa(v)) /\ v >= 1 THEN 1 ELSE 0

TopBox(v) == IF (~IsNa(v)) /\ v = 5 THEN 1 ELSE 0

\* analysis_df.loc[raw_vals.isna(), col_tb] = np.nan
MaskMissing(rv, tb) == IF IsNa(rv) THEN NaN ELSE tb

TbKinds == {"funnel", "benefit"}

tbIdle == /\ tb_kind = "funnel"
          /\ tb_raw = NaN
          /\ raw_vals = NaN
          /\ tb_val = <<>>
          /\ tb_pc = "idle"

\* tb_val = <<>> : the _tb column does not exist yet
tbInit == /\ tb_kind \in TbKinds
          /\ tb_raw \in RawCells
          /\ raw_vals = tb_raw
          /\ tb_val = <<>>
          /\ tb_pc = "clean"

TbClean == /\ tb_pc = "clean"
           /\ raw_vals' = CleanRange(raw_vals)
           /\ tb_pc' = "binarize"
           /\ UNCHANGED <<tb_kind, tb_raw, tb_val>>
           /\ UNCHANGED <<rcVars, bsVars, prVars, scVars, exVars, stVars>>

TbBinarize == /\ tb_pc = "binarize"
              /\ tb_val' = <<TopBox(raw_vals)>>
              /\ tb_pc' = "mask"
              /\ UNCHANGED <<tb_kind, tb_raw, raw_vals>>
              /\ UNCHANGED <<rcVars, bsVars, prVars, scVars, exVars, stVars>>

TbMask == /\ tb_pc = "mask"
          /\ tb_val' = <<MaskMissing(raw_vals, tb_val[1])>>
          /\ tb_pc' = "done"
          /\ UNCHANGED <<tb_kind, tb_raw, raw_vals>>
          /\ UNCHANGED <<rcVars, bsVars, prVars, scVars, exVars, stVars>>

\* the three steps once more, on the coded cell itself: tb_val then holds the
\* first coding and the coding of that coding
TbCodeAgain ==
    /\ tb_pc = "done"
    /\ LET rv == CleanRange(tb_val[1])
       IN tb_val' = Append(tb_val, MaskMissing(rv, TopBox(rv)))
    /\ tb_pc' = "again"
    /\ UNCHANGED <<tb_kind, tb_raw, raw_vals>>
    /\ UNCHANGED <<rcVars, bsVars, prVars, scVars, exVars, stVars>>

-----------------------------------------------------------------------------
(* process_raw_data.py : compute_benefit_scores                            *)

\* BRAND_ATTRIBUTE_MAPPING, item number -> benefit category, in dict order
BRAND_ATTRIBUTE_MAPPING ==
    << <<1, "emot_relaxation">>, <<2, "emot_relaxation">>,
       <<3, "emot_connection">>, <<5, "emot_memorable">>,
       <<6, "emot_connection">>, <<14, "emot_connection">>,
       <<33, "emot_authenticity">>, <<34, "emot_authenticity">>,
       <<35, "emot_authenticity">>, <<36, "emot_connection">>,
       <<37, "emot_relaxation">>,
       <<19, "emot_excitement">>, <<20, "emot_excitement">>,
       <<21, "emot_excitement">>, <<22, "emot_excitement">>,
       <<16, "func_variety">>, <<17, "func_quality">>,
       <<23, "func_convenience">>, <<25, "func_quality">>,
       <<27, "func_convenience">>, <<28, "func_convenience">>,
       <<29, "func_value">>, <<30, "func_value">>, <<31, "func_value">>,
       <<32, "func_value">>, <<38, "func_reliability">> >>

Items == {BRAND_ATTRIBUTE_MAPPING[k][1] : k \in DOMAIN BRAND_ATTRIBUTE_MAPPING}

\* the keys of results / benefit_cols
benefit_cols == {"func_convenience", "func_value", "func_quality",
                 "func_variety", "func_reliability", "emot_excitement",
                 "emot_relaxation", "emot_connection", "emot_authenticity",
                 "emot_memorable"}

\* category_items[category]: the item numbers of a category, in dict order
RECURSIVE ItemsFrom(_, _)
ItemsFrom(k, category) ==
    IF k > Len(BRAND_ATTRIBUTE_MAPPING) THEN <<>>
    ELSE IF BRAND_ATTRIBUTE_MAPPING[k][2] = category
         THEN <<BRAND_ATTRIBUTE_MAPPING[k][1]>> \o ItemsFrom(k + 1, category)
         ELSE ItemsFrom(k + 1, category)

category_items(category) == ItemsFrom(1, category)

\* a composite value: the fraction num/den of halves; den = 0 is np.nan
NaNScore == [num |-> 0, den |-> 0]

RECURSIVE Gcd(_, _)
Gcd(a, b) == IF b = 0 THEN a ELSE Gcd(b, a % b)

Abs(x) == IF x < 0 THEN 0 - x ELSE x

RECURSIVE SumSeq(_)
SumSeq(s) == IF s = <<>> THEN 0 ELSE Head(s) + SumSeq(Tail(s))

\* np.mean(values) of a non-empty list, as a fraction in lowest terms
Mean(values) ==
    LET n == SumSeq(values)
        d == Len(values)
        g == Gcd(Abs(n), d)
    IN [num |-> n \div g, den |-> d \div g]

\* the cell test of the inner loop: not pd.isna(val) and val != 99
KeepCell(val) == (~IsNa(val)) /\ val # 99

\* the inner loop over the items of a category: the converted values kept
RECURSIVE CollectValues(_, _, _)
CollectValues(row, columns, items) ==
    IF items = <<>> THEN <<>>
    ELSE LET item_num == Head(items)
             rest == CollectValues(row, columns, Tail(items))
         IN IF item_num \in columns /\ KeepCell(row[item_num])
            THEN <<Rescale17(row[item_num])>> \o rest
            ELSE rest

\* results[category] for one row
CategoryScore(row, columns, category) ==
    LET values == CollectValues(row, columns, category_items(category))
    IN IF values # <<>> THEN Mean(values) ELSE NaNScore

\* compute_benefit_scores(df, brand_prefix): df is the sequence of the rows'
\* cells under the prefix, columns the item numbers whose column exists
compute_benefit_scores(df, columns) ==
    [category \in benefit_cols |->
        [idx \in 1..Len(df) |-> CategoryScore(df[idx], columns, category)]]

\* the battery cells of a row repeat a pattern of PatLen cells
PatLen == 3
BatteryCells == {NaN, 0, 2, 4, 99}
PatternRow(p) == [i \in Items |-> p[(i % PatLen) + 1]]
BatteryRows == {PatternRow(p) : p \in [1..PatLen -> BatteryCells]}

\* df.columns: every item column, or the table lacks the columns of two items
ColumnSets == {Items, Items \ {2, 29}}

bsIdle == /\ bs_row = <<>>
          /\ bs_columns = {}
          /\ bs_results = <<>>
          /\ bs_pc = "idle"

bsInit == /\ bs_row \in BatteryRows
          /\ bs_columns \in ColumnSets
          /\ bs_results = <<>>
          /\ bs_pc = "call"

ComputeBenefitScores ==
    /\ bs_pc = "call"
    /\ bs_results' = compute_benefit_scores(<<bs_row>>, bs_columns)
    /\ bs_pc' = "done"
    /\ UNCHANGED <<bs_row, bs_columns>>
    /\ UNCHANGED <<rcVars, tbVars, prVars, scVars, exVars, stVars>>

-----------------------------------------------------------------------------
(* process_raw_data.py : process_raw_data                                  *)

\* at most MaxResp rows in the raw sheet
MaxResp == 2

\* key_vars, and the raw column each is recoded from (Q1-1 .. Q5-1)
key_vars == <<"awareness", "familiarity", "opinion", "consideration",
              "likelihood">>
KeyVarSet == {key_vars[k] : k \in DOMAIN key_vars}
QIndex(var) == CHOOSE k \in DOMAIN key_vars : key_vars[k] = var

\* the cells Q1-1 .. Q5-1 of the rows drawn
FunnelProfiles == { <<3, 4, 5, 2, 4>>, <<99, 99, 99, 4, 5>>,
                    <<NaN, NaN, 3, 3, 3>>, <<0, 0, 0, 1, 1>>,
                    <<5, 5, 5, 5, 8>> }

\* a raw row: its funnel cells, its Q7-* cells and its Q8-* cells
RawRows == { [q |-> f, q7 |-> [i \in Items |-> a], q8 |-> [i \in Items |-> b]] :
             f \in FunnelProfiles, a \in {NaN, 4}, b \in {NaN, 2} }

RECURSIVE SeqsUpTo(_, _)
SeqsUpTo(S, n) ==
    IF n = 0 THEN {<<>>}
    ELSE LET shorter == SeqsUpTo(S, n - 1)
         IN shorter \cup {Append(t, x) : t \in {u \in shorter : Len(u) = n - 1}, x \in S}

\* f'{n:05d}': the decimal digits of n, left-padded with zeros to 5 places
DigitChars == <<"0", "1", "2", "3", "4", "5", "6", "7", "8", "9">>
RECURSIVE Decimal(_)
Decimal(n) == IF n < 10 THEN <<DigitChars[n + 1]>>
              ELSE Decimal(n \div 10) \o <<DigitChars[(n % 10) + 1]>>
RECURSIVE PadZeros(_, _)
PadZeros(s, width) == IF Len(s) >= width THEN s ELSE PadZeros(<<"0">> \o s, width)

\* f'R{i+1:05d}' for i in range(n_resp); n is i + 1
FormatRespondentId(n) == <<"R">> \o PadZeros(Decimal(n), 5)

\* a row of processed before its columns are filled
BlankProcessed(n) ==
    [respondent_id |-> FormatRespondentId(n),
     funnel |-> [v \in KeyVarSet |-> NaN],
     benefits |-> [c \in benefit_cols |-> NaNScore]]

\* processed[key_vars].isna().sum(axis=1) of one row
MissingCount(row) == Cardinality({v \in KeyVarSet : IsNa(row.funnel[v])})

\* missing_pct < 0.5 with missing_pct = count / len(key_vars)
KeepRespondent(row) == 2 * MissingCount(row) < Len(key_vars)

\* processed[mask].reset_index(drop=True): the rows kept, in order
RECURSIVE FilterRows(_)
FilterRows(rows) ==
    IF rows = <<>> THEN <<>>
    ELSE IF KeepRespondent(Head(rows))
         THEN <<Head(rows)>> \o FilterRows(Tail(rows))
         ELSE FilterRows(Tail(rows))

prIdle == /\ raw_df = <<>>
          /\ processed = <<>>
          /\ csv = <<>>
          /\ pr_pc = "idle"
          /\ sem_models = {}

prInit == /\ raw_df \in SeqsUpTo(RawRows, MaxResp)
          /\ processed = <<>>
          /\ csv = <<>>
          /\ pr_pc = "ids"
          /\ sem_models = {}

\* section 1: respondent ids for range(n_resp)
GenerateIds ==
    /\ pr_pc = "ids"
    /\ processed' = [i \in 1..Len(raw_df) |-> BlankProcessed(i)]
    /\ pr_pc' = "funnel"
    /\ UNCHANGED <<raw_df, csv, sem_models>>
    /\ UNCHANGED <<rcVars, tbVars, bsVars, scVars, exVars, stVars>>

\* section 3: the five funnel columns, recode_funnel_variable(x) per cell
ProcessFunnel ==
    /\ pr_pc = "funnel"
    /\ processed' = [i \in 1..Len(processed) |->
          [processed[i] EXCEPT !.funnel =
              [v \in KeyVarSet |->
                  recode_funnel_variable(raw_df[i].q[QIndex(v)], "likert")]]]
    /\ pr_pc' = "benefits"
    /\ UNCHANGED <<raw_df, csv, sem_models>>
    /\ UNCHANGED <<rcVars, tbVars, bsVars, scVars, exVars, stVars>>

\* section 5: Q7 scores, then the missing ones filled from Q8
ProcessBenefits ==
    /\ pr_pc = "benefits"
    /\ LET q7_benefits ==
              compute_benefit_scores([i \in 1..Len(raw_df) |-> raw_df[i].q7], Items)
           q8_benefits ==
              compute_benefit_scores([i \in 1..Len(raw_df) |-> raw_df[i].q8], Items)
           Fill(c, i) ==
              LET mask == q7_benefits[c][i] = NaNScore
                  val == q8_benefits[c][i]
              IN IF mask /\ val # NaNScore THEN val ELSE q7_benefits[c][i]
       IN processed' = [i \in 1..Len(processed) |->
             [processed[i] EXCEPT !.benefits = [c \in benefit_cols |-> Fill(c, i)]]]
    /\ pr_pc' = "clean"
    /\ UNCHANGED <<raw_df, csv, sem_models>>
    /\ UNCHANGED <<rcVars, tbVars, bsVars, scVars, exVars, stVars>>

\* section 6: respondents with half or more of key_vars missing are removed
CleanData ==
    /\ pr_pc = "clean"
    /\ processed' = FilterRows(processed)
    /\ pr_pc' = "save"
    /\ UNCHANGED <<raw_df, csv, sem_models>>
    /\ UNCHANGED <<rcVars, tbVars, bsVars, scVars, exVars, stVars>>

\* section 7: processed.to_csv(csv_path, index=False)
SaveProcessed ==
    /\ pr_pc = "save"
    /\ csv' = processed
    /\ pr_pc' = "done"
    /\ UNCHANGED <<raw_df, processed, sem_models>>
    /\ UNCHANGED <<rcVars, tbVars, bsVars, scVars, exVars, stVars>>

-----------------------------------------------------------------------------
(* sem_analysis.py : the OLS models fit on survey_processed.csv            *)

FUNCTIONAL_BENEFITS == {"func_convenience", "func_value", "func_quality",
                        "func_variety", "func_reliability"}
EMOTIONAL_BENEFITS == {"emot_excitement", "emot_relaxation", "emot_connection",
                       "emot_authenticity", "emot_memorable"}

\* whether a column of df is missing in a row: the key variables as saved;
\* intent = (consideration + likelihood) / 2 (process_raw_data, line 260);
\* the composites of run_path_analysis are df[[...]].mean(axis=1), missing
\* only when every part is
ColumnNa(row, col) ==
    LET Na(v) == IsNa(row.funnel[v])
        intent == Na("consideration") \/ Na("likelihood")
    IN CASE col \in KeyVarSet -> Na(col)
         [] col = "intent" -> intent
         [] col = "upper_funnel" -> Na("awareness") /\ Na("familiarity")
         [] col = "middle_funnel" -> Na("opinion") /\ Na("consideration")
         [] col = "lower_funnel" -> Na("likelihood") /\ intent
         [] col = "functional" ->
              \A c \in FUNCTIONAL_BENEFITS : row.benefits[c] = NaNScore
         [] col = "emotional" ->
              \A c \in EMOTIONAL_BENEFITS : row.benefits[c] = NaNScore

\* a call of sm.OLS(y, X): the rows of df it is given
OLSCall(name, outcome, predictors, rows) ==
    [name |-> name, outcome |-> outcome, predictors |-> predictors, rows |-> rows]

\* analysis_df = df[[outcome] + predictors].dropna() ; sm.OLS(y, X).fit()
run_regression_analysis(df, name, outcome, predictors) ==
    OLSCall(name, outcome, predictors,
            {i \in DOMAIN df :
                \A col \in {outcome} \cup predictors : ~ColumnNa(df[i], col)})

\* sm.OLS raises on an empty table and on a missing value in X
Raises(df, call) ==
    \/ call.rows = {}
    \/ \E i \in call.rows : \E col \in call.predictors : ColumnNa(df[i], col)

\* the calls made up to and with the first that raises
RECURSIVE CallsMade(_, _)
CallsMade(df, cs) ==
    IF cs = <<>> THEN {}
    ELSE IF Raises(df, Head(cs)) THEN {Head(cs)}
         ELSE {Head(cs)} \cup CallsMade(df, Tail(cs))

AnyRaises(df, cs) == \E k \in DOMAIN cs : Raises(df, cs[k])

\* run_path_analysis(df): model1, model2, model3
run_path_analysis(df) ==
    << run_regression_analysis(df, "model1", "middle_funnel", {"upper_funnel"}),
       run_regression_analysis(df, "model2", "lower_funnel",
                               {"middle_funnel", "upper_funnel"}),
       run_regression_analysis(df, "model3", "intent",
                               {"awareness", "familiarity", "consideration",
                                "functional", "emotional"}) >>

\* run_mediation_analysis(df): the z-scores are columns of df itself, and
\* each model is given all of df
mediation_models(df) ==
    << OLSCall("total_model", "intent", {"awareness"}, DOMAIN df),
       OLSCall("a_model", "consideration", {"awareness"}, DOMAIN df),
       OLSCall("bc_model", "intent", {"awareness", "consideration"}, DOMAIN df) >>

RunPathAnalysis ==
    /\ pr_pc = "done"
    /\ sem_models' = CallsMade(csv, run_path_analysis(csv))
    /\ pr_pc' = IF AnyRaises(csv, run_path_analysis(csv)) THEN "error" ELSE "mediation"
    /\ UNCHANGED <<raw_df, processed, csv>>
    /\ UNCHANGED <<rcVars, tbVars, bsVars, scVars, exVars, stVars>>

RunMediationAnalysis ==
    /\ pr_pc = "mediation"
    /\ sem_models' = sem_models \cup CallsMade(csv, mediation_models(csv))
    /\ pr_pc' = IF AnyRaises(csv, mediation_models(csv)) THEN "error" ELSE "analysed"
    /\ UNCHANGED <<raw_df, processed, csv>>
    /\ UNCHANGED <<rcVars, tbVars, bsVars, scVars, exVars, stVars>>

-----------------------------------------------------------------------------
(* The analysis scripts: data preparation and samples                      *)
(*   "factor"    brand_benefit_factor_analysis.py                          *)
(*   "cluster"   brand_benefit_cluster_analysis.py                         *)
(*   "full_sem"  full_sem_with_benefits.py                                 *)
(*   "topbox"    sem_penalized_logistic_topbox.py                          *)
(*   "real_data" sem_analysis_real_data.py                                 *)
(* The input table is held as the number of rows of each kind (data[i] rows  *)
(* equal to RowTypes[i]); a sample is the set of the kinds it holds.       *)

Scripts == {"factor", "cluster", "full_sem", "topbox", "real_data"}

\* the kinds of row of the input table: audience, the four funnel cells,
\* the functional and the emotional battery cells
RowTypes == <<
    [audience |-> "A", familiarity |-> 4, opinion |-> 5, consideration |-> 5,
     likelihood |-> 5, func |-> <<5, 4>>, emot |-> <<5>>],
    [audience |-> "A", familiarity |-> 3, opinion |-> 4, consideration |-> 2,
     likelihood |-> 3, func |-> <<2, 5>>, emot |-> <<4>>],
    [audience |-> "A", familiarity |-> 5, opinion |-> 5, consideration |-> 4,
     likelihood |-> 4, func |-> <<0, 3>>, emot |-> <<3>>],
    [audience |-> "B", familiarity |-> 5, opinion |-> 5, consideration |-> 5,
     likelihood |-> 5, func |-> <<4, 99>>, emot |-> <<5>>],
    [audience |-> "B", familiarity |-> 0, opinion |-> 3, consideration |-> 4,
     likelihood |-> 2, func |-> <<3, 3>>, emot |-> <<3>>],
    [audience |-> "B", familiarity |-> 4, opinion |-> 4, consideration |-> 3,
     likelihood |-> 99, func |-> <<5, 5>>, emot |-> <<5>>],
    [audience |-> "C", familiarity |-> 2, opinion |-> 2, consideration |-> 1,
     likelihood |-> 1, func |-> <<NaN, NaN>>, emot |-> <<NaN>>],
    [audience |-> "C", familiarity |-> 3, opinion |-> NaN, consideration |-> 3,
     likelihood |-> 5, func |-> <<0, 2>>, emot |-> <<5>>] >>

\* the number of rows of a kind: none, a few, many
SmallCount == 15
BigCount == 60
Counts == {0, SmallCount, BigCount}

funnel_vars == {"familiarity", "opinion", "consideration", "likelihood"}

\* df[...].replace(0, np.nan)
Replace0(v) == IF v = 0 THEN NaN ELSE v

\* sem_analysis_real_data: data.loc[data[col] == 0, col] = np.nan, then == 99
Replace0And99(v) == IF v = 0 \/ v = 99 THEN NaN ELSE v

\* the three steps of the top-box coding of a cell
TopBoxCode(v) == MaskMissing(CleanRange(v), TopBox(CleanRange(v)))


\* the row of analysis_df a script makes of a raw row
PrepareRow(sc, r) ==
    LET Funnel(v) == CASE sc = "topbox" -> TopBoxCode(v)
                       [] sc = "real_data" -> Replace0And99(v)
                       [] OTHER -> v
        Benefit(v) == CASE sc = "topbox" -> TopBoxCode(v)
                        [] sc = "real_data" -> Replace0And99(v)
                        [] OTHER -> Replace0(v)
    IN [audience |-> r.audience,
        familiarity |-> Funnel(r.familiarity), opinion |-> Funnel(r.opinion),
        consideration |-> Funnel(r.consideration),
        likelihood |-> Funnel(r.likelihood),
        func |-> [k \in DOMAIN r.func |-> Benefit(r.func[k])],
        emot |-> [k \in DOMAIN r.emot |-> Benefit(r.emot[k])]]

\* all_benefit_cols = func_cols + emot_cols
Battery(a) == a.func \o a.emot
AnyNa(s) == \E k \in DOMAIN s : IsNa(s[k])
AllNa(s) == \A k \in DOMAIN s : IsNa(s[k])
FunnelNa(a) == \E v \in funnel_vars : IsNa(a[v])

\* (analysis_df[all_benefit_cols] > 0).any(axis=1)
AnyPositive(s) == \E k \in DOMAIN s : (~IsNa(s[k])) /\ s[k] > 0

\* the samples a script forms of the rows present, under the script's names
FormSamples(sc, adf, present) ==
    CASE sc \in {"factor", "cluster"} ->
           LET subset == {i \in present : AnyPositive(Battery(adf[i]))}
               complete == {i \in subset : ~AnyNa(Battery(adf[i]))}
           IN [analysis_subset |-> subset, analysis_complete |-> complete,
               reg_data |-> {i \in complete : ~FunnelNa(adf[i])}]
      [] sc = "full_sem" ->
           [analysis_complete |->
               {i \in present : /\ AnyPositive(Battery(adf[i]))
                                /\ ~FunnelNa(adf[i])
                                /\ ~AnyNa(Battery(adf[i]))}]
      [] sc = "topbox" ->
           LET has_funnel == {i \in present : ~FunnelNa(adf[i])}
               has_benefits == {i \in present : ~AllNa(Battery(adf[i]))}
           IN [funnel_complete |-> has_funnel,
               benefits_complete |->
                   {i \in has_funnel \cap has_benefits : ~AnyNa(Battery(adf[i]))}]
      [] sc = "real_data" ->
           LET funnel_data == {i \in present : ~FunnelNa(adf[i])}
           IN [funnel_data |-> funnel_data,
               benefits_data |-> {i \in funnel_data :
                   (~AllNa(adf[i].func)) /\ ~AllNa(adf[i].emot)}]

\* len(sample): the rows of the kinds in S
RECURSIVE Size(_, _)
Size(S, d) == IF S = {} THEN 0
              ELSE LET i == CHOOSE j \in S : TRUE IN d[i] + Size(S \ {i}, d)

FitNames == {"result1", "result2", "result3", "result_funnel", "result_full",
             "result_l1", "result_l2"}

scIdle == /\ script = "none"
          /\ data = <<>>
          /\ analysis_df = <<>>
          /\ samples = <<>>
          /\ calls = {}
          /\ fitres = <<>>
          /\ log = {}
          /\ segment_results = {}
          /\ segments_left = {}
          /\ factor_cols = 0
          /\ pc = "idle"

scInit == /\ script \in Scripts
          /\ data \in [DOMAIN RowTypes -> Counts]
          /\ \E i \in DOMAIN RowTypes : data[i] > 0
          /\ analysis_df = <<>>
          /\ samples = <<>>
          /\ calls = {}
          /\ fitres = [f \in FitNames |-> "undefined"]
          /\ log = {}
          /\ segment_results = {}
          /\ segments_left = {}
          /\ factor_cols = 0
          /\ pc = "prepare"

\* the data preparation of the script: cleaning, then the samples
Prepare ==
    /\ pc = "prepare"
    /\ LET adf == [i \in DOMAIN RowTypes |-> PrepareRow(script, RowTypes[i])]
       IN /\ analysis_df' = adf
          /\ samples' = FormSamples(script, adf, {i \in DOMAIN RowTypes : data[i] > 0})
    /\ pc' = IF script = "real_data" THEN "paths" ELSE "latent_fit"
    /\ UNCHANGED <<script, data, calls, fitres, log, segment_results,
                   segments_left, factor_cols>>
    /\ UNCHANGED <<rcVars, tbVars, bsVars, prVars, exVars, stVars>>

-----------------------------------------------------------------------------
(* The analysis scripts: fits, segment loops, saving                       *)

\* a fit the script asks for: the rows handed to it, the outcome classes (of
\* a logistic fit) and whether a model was constructed and fitted
FitCall(fn, name, segment, rows, classes, fitted) ==
    [fn |-> fn, name |-> name, segment |-> segment, rows |-> rows,
     n |-> Size(rows, data), classes |-> classes, fitted |-> fitted]

\* sklearn / statsmodels fitted straight on a sample
LibraryFit(fn, name, segment, rows) ==
    FitCall(fn, name, segment, rows, {}, TRUE)

\* if len(np.unique(y_clean)) < 2
OneClass_NoClassOnly(classes) == Cardinality(classes) < 1
OneClass(classes) == Cardinality(classes) < 2

\* fit_penalized_logistic(X, y, name): the call made on the rows of S with
\* predictors X and outcome y
fit_penalized_logistic(S, X, y, name, segment) ==
    LET valid_idx == {i \in S : /\ \A x \in X : ~IsNa(analysis_df[i][x])
                                /\ ~IsNa(analysis_df[i][y])}
        classes == {analysis_df[i][y] : i \in valid_idx}
    IN FitCall("fit_penalized_logistic", name, segment, valid_idx, classes,
               ~OneClass(classes))

\* what fit_penalized_logistic prints and returns for the calls cs
SkipLines(cs) == {[name |-> c.name, reason |-> "Skipped - only one class present"] :
                     c \in {d \in cs : ~d.fitted}}
Returned(c) == IF c.fitted THEN "result" ELSE "None"
Traceback(exc) == [name |-> "Traceback", reason |-> exc]

\* if len(seg_data) < 50: continue / if len(seg_data) >= 20:
min_segment_Any(sc) == 0
min_segment(sc) == IF sc = "real_data" THEN 20 ELSE 50

\* the rows whose standard deviations scale the coefficient reported for a
\* segment.  full_sem: m.params[var] * seg_data[var].std() / y.std().
\* real_data: the segment model is fit on consideration_z and likelihood_z,
\* which scaler.fit_transform(funnel_data[[col]]) made of all of funnel_data
StdRows(sc, seg_data) ==
    IF sc = "real_data" THEN samples.funnel_data ELSE seg_data

\* the sample the segment loop of the script runs over
SegmentSample ==
    CASE script = "topbox" -> samples.funnel_complete
      [] script = "full_sem" -> samples.analysis_complete
      [] script = "real_data" -> samples.funnel_data
SegmentRows(seg) == {i \in SegmentSample : analysis_df[i].audience = seg}
Segments == {analysis_df[i].audience : i \in SegmentSample}

\* sorted(segments): the place of a segment name in alphabetical order
SortKey(seg) == CHOOSE k \in 1..3 : <<"A", "B", "C">>[k] = seg

\* factor analysis (factor, full_sem, topbox) or attribute clustering (cluster)
LatentFit ==
    /\ pc = "latent_fit"
    /\ IF script = "topbox"
       THEN LET bc == samples.benefits_complete
            IN /\ calls' = IF Size(bc, data) > 50
                           THEN calls \cup {LibraryFit("FactorAnalysis", "factors", "", bc)}
                           ELSE calls
               /\ factor_cols' = IF Size(bc, data) > 50 THEN 4 ELSE 0
               /\ pc' = "paths"
               /\ log' = log
       ELSE LET ac == samples.analysis_complete
            IN IF ac = {}
               THEN /\ pc' = "error"
                    /\ log' = log \cup {Traceback("ValueError")}
                    /\ UNCHANGED <<calls, factor_cols>>
               ELSE /\ calls' = calls \cup
                        {LibraryFit(IF script = "cluster" THEN "KMeans"
                                    ELSE "FactorAnalysis", "factors", "", ac)}
                    /\ factor_cols' = IF script = "full_sem" THEN 4 ELSE factor_cols
                    /\ pc' = IF script = "full_sem" THEN "paths" ELSE "regression"
                    /\ log' = log
    /\ UNCHANGED <<script, data, analysis_df, samples, fitres, segment_results,
                   segments_left>>
    /\ UNCHANGED <<rcVars, tbVars, bsVars, prVars, exVars, stVars>>

\* factor / cluster: reg_data = analysis_complete[reg_cols].dropna(), two OLS
Regression ==
    /\ pc = "regression"
    /\ IF samples.reg_data = {}
       THEN /\ pc' = "error"
            /\ log' = log \cup {Traceback("ValueError")}
            /\ calls' = calls
       ELSE /\ calls' = calls \cup
                {LibraryFit("OLS", "model_funnel", "", samples.reg_data),
                 LibraryFit("OLS", "model_full", "", samples.reg_data)}
            /\ pc' = "done"
            /\ log' = log
    /\ UNCHANGED <<script, data, analysis_df, samples, fitres, segment_results,
                   segments_left, factor_cols>>
    /\ UNCHANGED <<rcVars, tbVars, bsVars, prVars, exVars, stVars>>

\* the funnel path models
Paths ==
    /\ pc = "paths"
    /\ CASE script = "topbox" ->
              LET fc == samples.funnel_complete
                  r1 == fit_penalized_logistic(fc, {"familiarity"}, "opinion",
                                               "Fam -> Opinion", "")
                  r2 == fit_penalized_logistic(fc, {"familiarity", "opinion"},
                                               "consideration", "-> Consideration", "")
                  r3 == fit_penalized_logistic(fc, funnel_vars \ {"likelihood"},
                                               "likelihood", "-> Likelihood", "")
              IN /\ calls' = calls \cup {r1, r2, r3}
                 /\ log' = log \cup SkipLines({r1, r2, r3})
                 /\ fitres' = [fitres EXCEPT !["result1"] = Returned(r1),
                                             !["result2"] = Returned(r2),
                                             !["result3"] = Returned(r3)]
                 /\ pc' = "full_model"
                 /\ UNCHANGED segments_left
         [] script = "full_sem" ->
              /\ calls' = calls \cup
                     {LibraryFit("OLS", nm, "", samples.analysis_complete) :
                          nm \in {"path1", "path2"}}
              /\ pc' = "full_model"
              /\ UNCHANGED <<log, fitres, segments_left>>
         [] script = "real_data" ->
              IF samples.funnel_data = {} \/ samples.benefits_data = {}
              THEN /\ pc' = "error"
                   /\ log' = log \cup {Traceback("ValueError")}
                   /\ UNCHANGED <<calls, fitres, segments_left>>
              ELSE /\ calls' = calls \cup
                          {LibraryFit("OLS", "funnel", "", samples.funnel_data),
                           LibraryFit("OLS", "benefits", "", samples.benefits_data)}
                   /\ pc' = "segments"
                   /\ segments_left' = Segments
                   /\ UNCHANGED <<log, fitres>>
    /\ UNCHANGED <<script, data, analysis_df, samples, segment_results, factor_cols>>
    /\ UNCHANGED <<rcVars, tbVars, bsVars, prVars, exVars, stVars>>

\* all_predictors = ['familiarity_tdl', 'opinion_tdl', 'consideration_tdl'] +
\* factor_cols
all_predictors(fcols) == Cardinality(funnel_vars \ {"likelihood"}) + fcols

\* df1 = len(factor_cols); df2 = len(analysis_complete) - len(all_predictors)
\* - 1; print(f"  F({df1}, {df2}) = ...")
nested_f_test_NoIntercept(n, fcols) ==
    [name |-> "F-test", reason |-> "", df1 |-> fcols, df2 |-> n - all_predictors(fcols)]

nested_f_test(n, fcols) ==
    [name |-> "F-test", reason |-> "", df1 |-> fcols,
     df2 |-> n - all_predictors(fcols) - 1]

\* the model with the benefit factors added; full_sem: then the F-test of the
\* funnel-only model against it
FullModel ==
    /\ pc = "full_model"
    /\ IF script = "topbox"
       THEN LET bc == samples.benefits_complete
                X == funnel_vars \ {"likelihood"}
                rf == fit_penalized_logistic(bc, X, "likelihood", "Funnel Only", "")
                ru == fit_penalized_logistic(bc, X, "likelihood", "Funnel + Benefits", "")
            IN /\ IF Size(bc, data) > 50 /\ factor_cols # 0
                  THEN /\ calls' = calls \cup {rf, ru}
                       /\ log' = log \cup SkipLines({rf, ru})
                       /\ fitres' = [fitres EXCEPT !["result_funnel"] = Returned(rf),
                                                   !["result_full"] = Returned(ru)]
                  ELSE UNCHANGED <<calls, log, fitres>>
               /\ pc' = "penalty"
               /\ UNCHANGED segments_left
       ELSE /\ calls' = calls \cup
                   {LibraryFit("OLS", nm, "", samples.analysis_complete) :
                        nm \in {"m_funnel", "m_full"}}
            /\ log' = log \cup
                   {nested_f_test(Size(samples.analysis_complete, data), factor_cols)}
            /\ pc' = "segments"
            /\ segments_left' = Segments
            /\ UNCHANGED fitres
    /\ UNCHANGED <<script, data, analysis_df, samples, segment_results, factor_cols>>
    /\ UNCHANGED <<rcVars, tbVars, bsVars, prVars, exVars, stVars>>

\* topbox: L1 against L2; each result is subscripted as soon as it is returned
PenaltyComparison ==
    /\ pc = "penalty"
    /\ LET fc == samples.funnel_complete
           X == funnel_vars \ {"likelihood"}
           l1 == fit_penalized_logistic(fc, X, "likelihood", "L1 (Lasso)", "")
           l2 == fit_penalized_logistic(fc, X, "likelihood", "L2 (Ridge)", "")
       IN IF ~l1.fitted
          THEN /\ calls' = calls \cup {l1}
               /\ log' = log \cup SkipLines({l1}) \cup {Traceback("TypeError")}
               /\ fitres' = [fitres EXCEPT !["result_l1"] = Returned(l1)]
               /\ pc' = "error"
          ELSE /\ calls' = calls \cup {l1, l2}
               /\ log' = log \cup SkipLines({l2})
                             \cup (IF l2.fitted THEN {} ELSE {Traceback("TypeError")})
               /\ fitres' = [fitres EXCEPT !["result_l1"] = Returned(l1),
                                           !["result_l2"] = Returned(l2)]
               /\ pc' = IF l2.fitted THEN "elasticnet" ELSE "error"
    /\ UNCHANGED <<script, data, analysis_df, samples, segment_results,
                   segments_left, factor_cols>>
    /\ UNCHANGED <<rcVars, tbVars, bsVars, prVars, exVars, stVars>>

\* topbox: the elastic net, inside try / except
ElasticNet ==
    /\ pc = "elasticnet"
    /\ calls' = calls \cup
           {LibraryFit("LogisticRegressionCV", "ElasticNet", "", samples.funnel_complete)}
    /\ pc' = "segments"
    /\ segments_left' = Segments
    /\ UNCHANGED <<script, data, analysis_df, samples, fitres, log,
                   segment_results, factor_cols>>
    /\ UNCHANGED <<rcVars, tbVars, bsVars, prVars, exVars, stVars>>

\* one pass of the body of the segment loop
SegmentStep ==
    /\ pc = "segments"
    /\ \E seg \in segments_left :
         LET rows == SegmentRows(seg)
             n == Size(rows, data)
             r == fit_penalized_logistic(rows, funnel_vars \ {"likelihood"},
                                         "likelihood", seg, seg)
         IN /\ script = "real_data" => \A other \in segments_left : SortKey(seg) <= SortKey(other)
            /\ segments_left' = segments_left \ {seg}
            /\ IF n < min_segment(script)
               THEN UNCHANGED <<calls, log, segment_results>>
               ELSE IF script = "topbox"
               THEN /\ calls' = calls \cup {r}
                    /\ log' = log \cup SkipLines({r})
                    /\ segment_results' = segment_results \cup
                           (IF r.fitted THEN {[segment |-> seg, n |-> n]} ELSE {})
               ELSE /\ calls' = calls \cup {LibraryFit("OLS", seg, seg, rows)}
                    /\ log' = log
                    /\ segment_results' = segment_results \cup
                           {[segment |-> seg, n |-> n, std_rows |-> StdRows(script, rows)]}
    /\ UNCHANGED <<script, data, analysis_df, samples, fitres, factor_cols, pc>>
    /\ UNCHANGED <<rcVars, tbVars, bsVars, prVars, exVars, stVars>>

\* after the loop: the table of the segment results
SegmentTable ==
    /\ pc = "segments"
    /\ segments_left = {}
    /\ IF script = "full_sem" /\ segment_results = {}
       THEN /\ pc' = "error"
            /\ log' = log \cup {Traceback("KeyError")}
       ELSE /\ pc' = "save"
            /\ log' = log
    /\ UNCHANGED <<script, data, analysis_df, samples, calls, fitres,
                   segment_results, segments_left, factor_cols>>
    /\ UNCHANGED <<rcVars, tbVars, bsVars, prVars, exVars, stVars>>

\* the result files are written
SaveResults ==
    /\ pc = "save"
    /\ pc' = IF script \in {"topbox", "real_data"} THEN "summary" ELSE "done"
    /\ UNCHANGED <<script, data, analysis_df, samples, calls, fitres, log,
                   segment_results, segments_left, factor_cols>>
    /\ UNCHANGED <<rcVars, tbVars, bsVars, prVars, exVars, stVars>>

\* topbox: the closing summary reads result3 and result_full.  real_data:
\* the executive summary reads strongest['Beta'] and weakest['Beta'], names
\* bound only under if len(segment_df) >= 2
Summary ==
    /\ pc = "summary"
    /\ IF script = "real_data"
       THEN IF Cardinality(segment_results) >= 2
            THEN /\ pc' = "done"
                 /\ log' = log
            ELSE /\ pc' = "error"
                 /\ log' = log \cup {Traceback("NameError")}
       ELSE IF fitres["result3"] = "None"
       THEN /\ pc' = "error"
            /\ log' = log \cup {Traceback("TypeError")}
       ELSE IF fitres["result_full"] = "undefined"
       THEN /\ pc' = "error"
            /\ log' = log \cup {Traceback("NameError")}
       ELSE /\ pc' = "done"
            /\ log' = log
    /\ UNCHANGED <<script, data, analysis_df, samples, calls, fitres,
                   segment_results, segments_left, factor_cols>>
    /\ UNCHANGED <<rcVars, tbVars, bsVars, prVars, exVars, stVars>>

-----------------------------------------------------------------------------
(* extract_tdl_data.main: the rows of the input after the header           *)
(* A cell is the sequence of its characters; a row is the list of cells    *)
(* csv.reader yields (the empty list for a blank line).                    *)

WAVE_TO_MONTH_WithAugust ==
    <<"February", "March", "April", "May", "June", "July", "August">>
WAVE_TO_MONTH == <<"February", "March", "April", "May", "June", "July">>
WAVE_COL == 0
OFFSET == 1

\* locators of COLUMNS: the first two, the last of the household block, the
\* first of the visit block and one of the funnel block
COLUMNS == <<[name |-> "segment_code", idx |-> 0 + OFFSET],
             [name |-> "audience", idx |-> 1 + OFFSET],
             [name |-> "has_grandchildren", idx |-> 42 + OFFSET],
             [name |-> "recent_visit_tdl", idx |-> 66 + OFFSET],
             [name |-> "consideration_tdl", idx |-> 102 + OFFSET]>>

\* row[idx] of a Python list
Item(row, idx) == row[idx + 1]

\* int(s) of a string of decimal digits
IsInt(s) == s # <<>> /\ \A k \in DOMAIN s : \E d \in DOMAIN DigitChars : DigitChars[d] = s[k]
RECURSIVE ParseInt(_)
ParseInt(s) ==
    IF s = <<>> THEN 0
    ELSE 10 * ParseInt(SubSeq(s, 1, Len(s) - 1))
         + (CHOOSE d \in 0..9 : DigitChars[d + 1] = s[Len(s)])

\* wave = int(row[WAVE_COL]) if row[WAVE_COL] else 1 raises IndexError on a
\* row without cells and ValueError on a wave cell that is not a number
RowRaises(row) ==
    \/ WAVE_COL >= Len(row)
    \/ Item(row, WAVE_COL) # <<>> /\ ~IsInt(Item(row, WAVE_COL))

\* the dict resp built of a row
Respondent(row, id) ==
    LET wave == IF Item(row, WAVE_COL) # <<>> THEN ParseInt(Item(row, WAVE_COL)) ELSE 1
    IN [respondent_id |-> id,
        wave |-> wave,
        month |-> IF wave \in DOMAIN WAVE_TO_MONTH THEN WAVE_TO_MONTH[wave] ELSE "Unknown",
        cells |-> [k \in DOMAIN COLUMNS |->
                      IF COLUMNS[k].idx < Len(row) THEN Item(row, COLUMNS[k].idx) ELSE <<>>]]

MaxRows == 2
WaveCells == {<<>>, <<"1">>, <<"7">>, <<"x">>}
DataCells == {<<>>, <<"3">>}
InputRows ==
    {<<>>} \cup {<<w>> : w \in WaveCells}
           \cup {<<w, a>> : w \in WaveCells, a \in DataCells}
           \cup {<<w, a, b>> : w \in WaveCells, a \in DataCells, b \in DataCells}

\* encodings = ['utf-8', 'cp1252', 'shift_jis', 'cp932', 'utf-8-sig']
encodings == <<"utf-8", "cp1252", "shift_jis", "cp932", "utf-8-sig">>

\* the candidate encodings under which the first line of the file decodes
DecodableSets == {{}, {"shift_jis", "cp932"},
                  {"utf-8", "cp1252", "shift_jis", "cp932", "utf-8-sig"}}

exIdle == /\ input_rows = <<>>
          /\ reader = <<>>
          /\ respondent_id = 0
          /\ respondent_rows = <<>>
          /\ survey_csv = <<>>
          /\ ex_pc = "idle"
          /\ decodable = {}
          /\ enc = 1
          /\ infile = "None"
          /\ ex_error = ""
          /\ dict_rows = <<>>

\* infile is f: f = None before the loop over the encodings; input_rows are the rows the
\* file holds after its header
exInit == /\ input_rows \in SeqsUpTo(InputRows, MaxRows)
          /\ reader = input_rows
          /\ respondent_id = 0
          /\ respondent_rows = <<>>
          /\ survey_csv = <<>>
          /\ ex_pc = "open"
          /\ decodable \in DecodableSets
          /\ enc = 1
          /\ infile = "None"
          /\ ex_error = ""
          /\ dict_rows = <<>>

\* one pass of: for enc in encodings: try: f = open(...); f.readline() ...
\* except (UnicodeDecodeError, UnicodeError): if f: f.close(); continue
TryEncoding ==
    /\ ex_pc = "open"
    /\ IF encodings[enc] \in decodable
       THEN /\ infile' = "open"
            /\ ex_pc' = "opened"
            /\ UNCHANGED enc
       ELSE /\ infile' = "closed"
            /\ enc' = enc + 1
            /\ ex_pc' = IF enc = Len(encodings) THEN "opened" ELSE "open"
    /\ UNCHANGED <<dict_rows, input_rows, reader, respondent_id, respondent_rows,
                   survey_csv, decodable, ex_error>>
    /\ UNCHANGED <<rcVars, tbVars, bsVars, prVars, scVars, stVars>>

\* if f is None: raise ValueError(...); with f: reader = csv.reader(f)
EnterFile ==
    /\ ex_pc = "opened"
    /\ CASE infile = "None" ->
              /\ ex_pc' = "error"
              /\ ex_error' = "ValueError: Could not decode file with any of"
         [] infile = "closed" ->
              /\ ex_pc' = "error"
              /\ ex_error' = "ValueError: I/O operation on closed file."
         [] infile = "open" ->
              /\ ex_pc' = "rows"
              /\ UNCHANGED ex_error
    /\ UNCHANGED <<dict_rows, input_rows, reader, respondent_id, respondent_rows,
                   survey_csv, decodable, enc, infile>>
    /\ UNCHANGED <<rcVars, tbVars, bsVars, prVars, scVars, stVars>>

\* one pass of: for row in reader
ReadRow ==
    /\ ex_pc = "rows"
    /\ reader # <<>>
    /\ respondent_id' = respondent_id + 1
    /\ reader' = Tail(reader)
    /\ IF RowRaises(Head(reader))
       THEN /\ ex_pc' = "error"
            /\ ex_error' = IF WAVE_COL >= Len(Head(reader))
                           THEN "IndexError: list index out of range"
                           ELSE "ValueError: invalid literal for int()"
            /\ UNCHANGED respondent_rows
       ELSE /\ respondent_rows' =
                   Append(respondent_rows, Respondent(Head(reader), respondent_id'))
            /\ UNCHANGED <<ex_pc, ex_error>>
    /\ UNCHANGED <<dict_rows, input_rows, survey_csv, decodable, enc, infile>>
    /\ UNCHANGED <<rcVars, tbVars, bsVars, prVars, scVars, stVars>>

\* fieldnames = list(respondent_rows[0].keys()): the keys of resp in the order
\* they were set
fieldnames ==
    <<"respondent_id", "wave", "month">> \o [k \in DOMAIN COLUMNS |-> COLUMNS[k].name]

\* 'demographics' if idx < 43 else 'behavior' if idx < 100 else 'perception'
DictCategory(idx) ==
    IF idx < 43 THEN "demographics" ELSE IF idx < 100 THEN "behavior" ELSE "perception"

\* dict_rows: wave and month first, then one entry for each of COLUMNS
DataDictionary ==
    << [column_name |-> "wave", original_column_index |-> 0,
        category |-> "survey_metadata"],
       [column_name |-> "month", original_column_index |-> 0,
        category |-> "survey_metadata"] >>
    \o [k \in DOMAIN COLUMNS |->
          [column_name |-> COLUMNS[k].name,
           original_column_index |-> COLUMNS[k].idx,
           category |-> DictCategory(COLUMNS[k].idx)]]

\* after the loop: survey_responses_tdl.csv is written if respondent_rows,
\* then data_dictionary.csv
WriteRespondents ==
    /\ ex_pc = "rows"
    /\ reader = <<>>
    /\ survey_csv' = respondent_rows
    /\ dict_rows' = DataDictionary
    /\ ex_pc' = "done"
    /\ UNCHANGED <<input_rows, reader, respondent_id, respondent_rows,
                   decodable, enc, infile, ex_error>>
    /\ UNCHANGED <<rcVars, tbVars, bsVars, prVars, scVars, stVars>>

-----------------------------------------------------------------------------
(* Single steps of the analysis scripts                                    *)
(* Each step is applied to an input of its own: step names the step, input *)
(* is what it reads, output the list of what its successive runs leave.    *)

stIdle == /\ step = "none"
          /\ input = <<>>
          /\ output = <<>>

(* ---- full_sem_with_benefits: the flip of the factor scores ---- *)

\* [a['signed_loading'] for a in top_attributes[:5]]: the loadings of the five
\* items of greatest absolute loading, 0 in the place of every other item
top_loadings(column) ==
    [i \in DOMAIN column |->
        IF Cardinality({j \in DOMAIN column : Abs(column[j]) > Abs(column[i])}) < 5
        THEN column[i] ELSE 0]

\* for i in range(4): if np.mean(top_loadings) < 0: factor_scores_raw[:, i] *= -1
FlipScores(fa) ==
    [loadings |-> fa.loadings,
     factor_scores_raw |->
        [i \in DOMAIN fa.factor_scores_raw |->
            IF SumSeq(top_loadings(fa.loadings[i])) < 0
            THEN 0 - fa.factor_scores_raw[i] ELSE fa.factor_scores_raw[i]]]

\* the fitted factors: two loading columns (magnitudes without ties, every
\* sign pattern) and a row of raw scores
FlipInputs ==
    LET Magnitudes == {<<9, 7, 6, 4, 3, 1>>, <<1, 3, 8, 2, 9, 5>>}
        LoadingColumns ==
            {[i \in DOMAIN m |-> IF i \in neg THEN 0 - m[i] ELSE m[i]] :
                m \in Magnitudes, neg \in SUBSET (1..6)}
    IN {[loadings |-> <<c1, c2>>, factor_scores_raw |-> <<3, 0 - 2>>] :
           c1 \in LoadingColumns, c2 \in LoadingColumns}

\* one run of the flip step, on the fitted factors or on its own output
FlipFactors ==
    /\ step = "flip"
    /\ Len(output) < 2
    /\ output' = Append(output, FlipScores(IF output = <<>> THEN input
                                           ELSE output[Len(output)]))
    /\ UNCHANGED <<step, input>>
    /\ UNCHANGED <<rcVars, tbVars, bsVars, prVars, scVars, exVars>>

(* ---- brand_benefit_factor_analysis: the number of factors ---- *)

\* n_factors_kaiser = sum(eigenvalues > 1); optimal_n_factors =
\* min(n_factors_kaiser, 6), raised to 3 when below 3.  The eigenvalues are
\* held in tenths.
optimal_n_factors_NoFloor(eigenvalues) ==
    LET n_factors_kaiser == Cardinality({i \in DOMAIN eigenvalues : eigenvalues[i] > 10})
    IN IF n_factors_kaiser < 6 THEN n_factors_kaiser ELSE 6
optimal_n_factors(eigenvalues) ==
    LET n_factors_kaiser == Cardinality({i \in DOMAIN eigenvalues : eigenvalues[i] > 10})
        capped == IF n_factors_kaiser < 6 THEN n_factors_kaiser ELSE 6
    IN IF capped < 3 THEN 3 ELSE capped

\* eigenvalues[::-1]: the eigenvalues of the correlation matrix, descending
MaxEig == 8
EigenInputs ==
    {ev \in [1..MaxEig -> {8, 10, 12}] :
        \A i \in 1..MaxEig : \A j \in i..MaxEig : ev[i] >= ev[j]}

SelectFactors ==
    /\ step = "n_factors"
    /\ output = <<>>
    /\ output' = <<optimal_n_factors(input)>>
    /\ UNCHANGED <<step, input>>
    /\ UNCHANGED <<rcVars, tbVars, bsVars, prVars, scVars, exVars>>

(* ---- brand_benefit_cluster_analysis: the number of clusters ---- *)

\* best_score = -1; for n in [4, 5, 6]: if min_size >= 3: combined_score =
\* silhouette_scores[n] * (min_size / 5); if combined_score > best_score: ...
\* if best_score == -1: optimal_n_clusters = 5.  The silhouettes are held in
\* tenths, so a score is held as 50 times its value.
optimal_n_clusters(silhouette_scores, min_size) ==
    LET Try(best, n) ==
            IF /\ min_size[n] >= 3
               /\ silhouette_scores[n] * min_size[n] > best.best_score
            THEN [best_score |-> silhouette_scores[n] * min_size[n],
                  optimal_n_clusters |-> n]
            ELSE best
        last == Try(Try(Try([best_score |-> 0 - 50, optimal_n_clusters |-> 4], 4), 5), 6)
    IN IF last.best_score = 0 - 50 THEN 5 ELSE last.optimal_n_clusters

\* the silhouette and the smallest cluster of the solutions for 4, 5 and 6
ClusterInputs ==
    {[silhouette_scores |-> sil, min_size |-> ms] :
        sil \in [4..6 -> {0 - 9, 0 - 2, 3, 6}], ms \in [4..6 -> {2, 3, 6}]}

SelectClusters ==
    /\ step = "n_clusters"
    /\ output = <<>>
    /\ output' = <<optimal_n_clusters(input.silhouette_scores, input.min_size)>>
    /\ UNCHANGED <<step, input>>
    /\ UNCHANGED <<rcVars, tbVars, bsVars, prVars, scVars, exVars>>

(* ---- cluster naming and factor naming ---- *)
(* A name is the pair of a text and a number: <<text, 0>> is the bare text, *)
(* <<text, n>> the text followed by the number n.                          *)

\* counter = 2; while name in used_names: name = f"{original_name} {counter}";
\* counter += 1
RECURSIVE UniqueName(_, _, _, _)
UniqueName(name, original_name, counter, used_names) ==
    IF name \in used_names
    THEN UniqueName(<<original_name, counter>>, original_name, counter + 1, used_names)
    ELSE name

\* the label the keyword rules give each construct in turn ("" when no rule
\* matches), under the cluster naming and under the factor naming
MaxConstructs == 3
NamingInputs ==
    {[script |-> sc, themes |-> th] :
        sc \in {"cluster", "factor"},
        th \in [1..MaxConstructs -> {"", "Fantasy & Escape", "Experience Quality"}]}

\* one pass of the naming loop: the construct after the ones already named
NameConstruct ==
    /\ step = "naming"
    /\ Len(output) < Len(input.themes)
    /\ LET id == Len(output) + 1
           theme == input.themes[id]
           used_names == {output[k] : k \in DOMAIN output}
           name == IF theme # "" THEN <<theme, 0>>
                   ELSE IF input.script = "cluster" THEN <<"Experience Cluster", id>>
                   ELSE <<"Dimension", id>>
       IN output' = Append(output,
                           IF input.script = "cluster"
                           THEN UniqueName(name, theme, 2, used_names)
                           ELSE name)
    /\ UNCHANGED <<step, input>>
    /\ UNCHANGED <<rcVars, tbVars, bsVars, prVars, scVars, exVars>>

(* ---- mediation: sem_analysis_real_data and run_mediation_analysis ---- *)
(* Effects are held in hundredths and p-values in thousandths; a proportion *)
(* is the pair of its numerator and denominator (denominator 0: inf or nan). *)

\* sem_analysis_real_data, objective 4 and the line of the executive summary:
\* the proportions printed and the label of the mediation
MediationReport(m) ==
    LET indirect == m.c - m.c_prime
        pct_mediated == IF m.c # 0 THEN [num |-> indirect * 100, den |-> m.c]
                        ELSE [num |-> 0, den |-> 1]
        summary == IF m.sobel_p < 50 /\ m.c # 0
                   THEN [num |-> indirect * 100, den |-> m.c]
                   ELSE [num |-> 0, den |-> 1]
    IN [proportions |-> (IF m.sobel_p < 50 THEN {pct_mediated} ELSE {}) \cup {summary},
        label |-> IF m.sobel_p < 50
                  THEN IF m.c_prime > 10 /\ m.p_direct < 50 THEN "partial" ELSE "full"
                  ELSE "none"]

\* sem_analysis.run_mediation_analysis: the proportion printed, the one
\* returned, and the result line
run_mediation_analysis(m) ==
    LET indirect_effect == m.c - m.c_prime
    IN [proportions |->
            {[num |-> indirect_effect * 100, den |-> m.c],
             IF m.c # 0 THEN [num |-> indirect_effect, den |-> m.c]
             ELSE [num |-> 0, den |-> 1]},
        label |-> IF m.c_prime < m.c /\ m.b > 0 THEN "partial" ELSE "none"]

\* the fitted paths: total effect c, direct effect c_prime and its p-value,
\* path b and its p-value, the p-value of the Sobel test (which is not below
\* that of path b, and not significant for an indirect effect of 0)
MediationInputs ==
    {m \in [analyzer : {"sem_analysis_real_data", "run_mediation_analysis"},
            c : {0 - 30, 0, 30}, c_prime : {0 - 30, 5, 30},
            p_direct : {1, 50, 200}, b : {0 - 20, 40}, p_b : {1, 200},
            sobel_p : {1, 200}] :
        /\ m.sobel_p >= m.p_b
        /\ m.sobel_p < 50 => m.c # m.c_prime}

Mediate ==
    /\ step = "mediation"
    /\ output = <<>>
    /\ output' = <<IF input.analyzer = "sem_analysis_real_data"
                   THEN MediationReport(input) ELSE run_mediation_analysis(input)>>
    /\ UNCHANGED <<step, input>>
    /\ UNCHANGED <<rcVars, tbVars, bsVars, prVars, scVars, exVars>>

(* ---- full_sem_with_benefits, sem_penalized_logistic_topbox: the number of
        factors extracted ---- *)

\* FactorAnalysis(n_components=4, random_state=42)
n_components == 4
\* n_factors = 4 ; FactorAnalysis(n_components=n_factors, random_state=42)
n_factors == 4

\* Neither script computes the eigenvalues of its sample; the input is the
\* eigenvalues the sample's correlation matrix has, the output the number of
\* factors fa.fit_transform extracts.
ExtractFactors ==
    /\ step \in {"full_sem_factors", "topbox_factors"}
    /\ output = <<>>
    /\ output' = <<IF step = "full_sem_factors" THEN n_components ELSE n_factors>>
    /\ UNCHANGED <<step, input>>
    /\ UNCHANGED <<rcVars, tbVars, bsVars, prVars, scVars, exVars>>

stInit == /\ output = <<>>
          /\ \/ step = "flip" /\ input \in FlipInputs
             \/ step = "n_factors" /\ input \in EigenInputs
             \/ step = "n_clusters" /\ input \in ClusterInputs
             \/ step = "naming" /\ input \in NamingInputs
             \/ step = "mediation" /\ input \in MediationInputs
             \/ step \in {"full_sem_factors", "topbox_factors"} /\ input \in EigenInputs

-----------------------------------------------------------------------------
(* Specifications                                                          *)

InitRecode == rcInit /\ tbIdle /\ bsIdle /\ prIdle /\ scIdle /\ exIdle /\ stIdle
NextRecode == Recode
SpecRecode == InitRecode /\ [][NextRecode]_vars

InitTopBox == tbInit /\ rcIdle /\ bsIdle /\ prIdle /\ scIdle /\ exIdle /\ stIdle
NextTopBox == TbClean \/ TbBinarize \/ TbMask \/ TbCodeAgain
SpecTopBox == InitTopBox /\ [][NextTopBox]_vars

InitBenefit == bsInit /\ rcIdle /\ tbIdle /\ prIdle /\ scIdle /\ exIdle /\ stIdle
NextBenefit == ComputeBenefitScores
SpecBenefit == InitBenefit /\ [][NextBenefit]_vars

InitProcess == prInit /\ rcIdle /\ tbIdle /\ bsIdle /\ scIdle /\ exIdle /\ stIdle
NextProcess == GenerateIds \/ ProcessFunnel \/ ProcessBenefits \/ CleanData
               \/ SaveProcessed \/ RunPathAnalysis \/ RunMediationAnalysis
SpecProcess == InitProcess /\ [][NextProcess]_vars

Init == scInit /\ rcIdle /\ tbIdle /\ bsIdle /\ prIdle /\ exIdle /\ stIdle
Next == \/ Prepare \/ LatentFit \/ Regression \/ Paths \/ FullModel
        \/ PenaltyComparison \/ ElasticNet \/ SegmentStep \/ SegmentTable
        \/ SaveResults \/ Summary
Spec == Init /\ [][Next]_vars

InitExtract == exInit /\ rcIdle /\ tbIdle /\ bsIdle /\ prIdle /\ scIdle /\ stIdle
NextExtract == TryEncoding \/ EnterFile \/ ReadRow \/ WriteRespondents
SpecExtract == InitExtract /\ [][NextExtract]_vars

InitSteps == stInit /\ rcIdle /\ tbIdle /\ bsIdle /\ prIdle /\ scIdle /\ exIdle
NextSteps == FlipFactors \/ SelectFactors \/ SelectClusters \/ NameConstruct \/ Mediate \/ ExtractFactors
SpecSteps == InitSteps /\ [][NextSteps]_vars

-----------------------------------------------------------------------------
(* Claims                                                                  *)

\* C1: for every raw rating value v in {0, 99}, recode_funnel_variable(v)
\* returns the missing marker, never a numeric value.
C1_ZeroAnd99AreMissing ==
    (rc_pc = "done" /\ value \in {0, 99}) => IsNa(recoded)

\* the items of a category that count for the composite of a row: the column
\* exists and the cell is neither missing nor one of the raw codes 0 and 99
CountedItems(row, columns, category) ==
    {i \in Items \cap columns :
        /\ \E k \in DOMAIN BRAND_ATTRIBUTE_MAPPING :
              BRAND_ATTRIBUTE_MAPPING[k] = <<i, category>>
        /\ row[i] \notin {NaN, 0, 99}}

RECURSIVE SumOver(_, _)
SumOver(S, row) ==
    IF S = {} THEN 0
    ELSE LET i == CHOOSE j \in S : TRUE
         IN Rescale17(row[i]) + SumOver(S \ {i}, row)

\* C3: for every respondent and benefit category, compute_benefit_scores
\* returns the sum of the respondent's non-missing items (a raw 0 or 99 counts
\* as missing) divided by their count, and missing when there is none.
C3_CompositeIsMeanOfNonMissing ==
    bs_pc = "done" =>
        \A c \in benefit_cols :
            LET r == bs_results[c][1]
                S == CountedItems(bs_row, bs_columns, c)
            IN IF S = {} THEN r = NaNScore
               ELSE r.den # 0 /\ r.num * Cardinality(S) = r.den * SumOver(S, bs_row)

\* C4: top-box coding maps a raw 5 to 1, a raw 1..4 to 0, and a missing raw
\* value or one outside 1..5 (0 and 99 included) to missing; the range is
\* cleaned before the binarization reads the value.
C4_TopBoxCoding ==
    /\ tb_pc \in {"mask", "done"} => (IsNa(raw_vals) \/ raw_vals \in 1..5)
    /\ tb_pc = "done" =>
          /\ tb_raw = 5 => tb_val = <<1>>
          /\ tb_raw \in {1, 2, 3, 4} => tb_val = <<0>>
          /\ (IsNa(tb_raw) \/ tb_raw \notin 1..5) => tb_val = <<NaN>>

\* a raw 99 has been coded: it is missing, not "not top box"
C4_Witness == tb_pc = "done" /\ tb_raw = 99 /\ tb_val = <<NaN>>

\* C10: the i-th respondent of the table process_raw_data emits carries the
\* identifier built from i, also when the missing-data filter removed rows.
C10_EmittedIdsHaveNoGaps ==
    pr_pc = "done" =>
        \A i \in 1..Len(csv) : csv[i].respondent_id = FormatRespondentId(i)

\* what a raw-code-free row looks like: no cell of the battery or of the
\* funnel, as the script holds the row, is 0 or 99
NoRawCodes(a) ==
    /\ \A v \in funnel_vars : a[v] \notin {0, 99}
    /\ \A k \in DOMAIN Battery(a) : Battery(a)[k] \notin {0, 99}

\* C2: in the factor, cluster and full_sem scripts, no row that enters a
\* factor fit, a cluster fit or a regression holds the raw code 0 or 99 in any
\* battery item or in any funnel variable.
C2_NoRawCodesEnterFits ==
    script \in {"factor", "cluster", "full_sem"} =>
        \A c \in calls : \A i \in c.rows : NoRawCodes(analysis_df[i])

\* C5: in the per-segment loops (minimum 20 in sem_analysis_real_data, 50 in
\* full_sem_with_benefits and sem_penalized_logistic_topbox) a segment with
\* fewer rows than the minimum is never fit and never appears in the segment
\* results.
C5_UnderMinimumSegmentNeverFit ==
    script \in {"real_data", "full_sem", "topbox"} =>
        LET minimum == IF script = "real_data" THEN 20 ELSE 50
        IN /\ \A r \in segment_results :
                 /\ r.n >= minimum
                 /\ Size(SegmentRows(r.segment), data) >= minimum
           /\ \A c \in calls :
                 c.segment # "" => Size(SegmentRows(c.segment), data) >= minimum

\* a loop that has ended, having passed over a segment below the minimum and
\* having fitted another
C5_Witness ==
    /\ script \in {"real_data", "full_sem", "topbox"}
    /\ pc \in {"save", "done"}
    /\ segment_results # {}
    /\ \E seg \in Segments :
          /\ Size(SegmentRows(seg), data) < (IF script = "real_data" THEN 20 ELSE 50)
          /\ \A r \in segment_results : r.segment # seg

\* C6: in full_sem_with_benefits and sem_penalized_logistic_topbox every
\* segment below the minimum appears in the output as excluded (with its size
\* and the reason); read here in the weakest way: some printed line or some
\* row of the segment results names the segment.
C6_ExcludedSegmentsReported ==
    (script \in {"full_sem", "topbox"} /\ pc \in {"save", "summary", "done"}) =>
        \A seg \in Segments :
            Size(SegmentRows(seg), data) < 50 =>
                \/ \E m \in log : m.name = seg
                \/ \E r \in segment_results : r.segment = seg

\* C7: fit_penalized_logistic never fits a model when the outcome has fewer
\* than two classes: on every such call the fit is reported as skipped, no
\* result is returned and no model is constructed.
C7_NoFitBelowTwoClasses ==
    \A c \in calls :
        (c.fn = "fit_penalized_logistic" /\ Cardinality(c.classes) < 2) =>
            /\ ~c.fitted
            /\ [name |-> c.name, reason |-> "Skipped - only one class present"] \in log
            /\ c.name = "Fam -> Opinion" => fitres["result1"] = "None"
            /\ c.name = "-> Consideration" => fitres["result2"] = "None"
            /\ c.name = "-> Likelihood" => fitres["result3"] = "None"
            /\ \A r \in segment_results : c.segment = "" \/ r.segment # c.segment

\* a call on rows whose outcome is all of one class
C7_Witness ==
    \E c \in calls : /\ c.fn = "fit_penalized_logistic"
                     /\ c.rows # {}
                     /\ Cardinality(c.classes) = 1
                     /\ ~c.fitted

\* C8: after any model fit is skipped for a degenerate outcome, the
\* penalized-logistic pipeline goes on to the saving and summary stages
\* without raising an error.
C8_PipelineContinuesAfterSkip ==
    (script = "topbox" /\ \E c \in calls : ~c.fitted) => pc # "error"

\* C9: extract_tdl_data emits exactly one Respondent per data row after the
\* header, and the k-th data row gets respondent_id k: after N data rows the
\* emitted ids are exactly 1..N in row order, with no gap and no repeat.
C9_OneRespondentPerRow ==
    (ex_pc \in {"done", "error"} /\ infile = "open") =>
        /\ Len(survey_csv) = Len(input_rows)
        /\ \A k \in 1..Len(survey_csv) : survey_csv[k].respondent_id = k

\* C11: for every data row of any length, a row with no cells included,
\* extract_tdl_data emits one Respondent in which every locator at or beyond
\* the row's length (the wave locator at 0 included) reads as an empty cell,
\* and no error is raised: a run never stops on a row for want of cells, and
\* the Respondent of a short row holds the empty string in those columns and
\* the wave of an empty wave cell.
C11_ShortRowsReadAsEmptyCells ==
    /\ \A k \in 1..Len(respondent_rows) :
          \A c \in DOMAIN COLUMNS :
             COLUMNS[c].idx >= Len(input_rows[k]) => respondent_rows[k].cells[c] = <<>>
    /\ (ex_pc = "error" /\ infile = "open") =>
          LET row == input_rows[respondent_id]
          IN WAVE_COL < Len(row)

\* C12: for every wave value read by extract_tdl_data the month label is the
\* entry of the lookup table when the wave is in 1..6 and 'Unknown' when it is
\* any other number; an out-of-range wave raises no error.
C12_MonthOfWave ==
    /\ \A k \in 1..Len(respondent_rows) :
          LET r == respondent_rows[k]
          IN IF r.wave \in 1..6
             THEN r.month = <<"February", "March", "April", "May", "June", "July">>[r.wave]
             ELSE r.month = "Unknown"
    /\ (ex_pc = "error" /\ infile = "open") =>
          LET row == input_rows[respondent_id]
          IN ~(WAVE_COL < Len(row) /\ IsInt(Item(row, WAVE_COL)))

\* a Respondent emitted for a row whose wave is a number outside 1..6
C12_Witness ==
    \E k \in 1..Len(survey_csv) :
        /\ Item(input_rows[k], WAVE_COL) = <<"7">>
        /\ survey_csv[k].wave = 7
        /\ survey_csv[k].month = "Unknown"

\* C13: if none of the candidate encodings decodes the input file,
\* extract_tdl_data aborts with the error 'Could not decode file with any of:
\* <attempted encodings>' and neither reads rows nor writes any output table.
C13_DecodeFailureIsReported ==
    (decodable = {} /\ ex_pc \notin {"open", "opened"}) =>
        /\ ex_pc = "error"
        /\ ex_error = "ValueError: Could not decode file with any of"
        /\ respondent_id = 0
        /\ survey_csv = <<>>

\* C14: after the flip step of full_sem_with_benefits, for each factor the
\* mean of the signed loadings of its top-5 items is >= 0: whenever that mean
\* was negative the step negates both the score column and the loading column
\* of the factor.
C14_TopLoadingsNonNegativeAfterFlip ==
    (step = "flip" /\ Len(output) >= 1) =>
        \A i \in DOMAIN input.loadings :
            LET before == SumSeq(top_loadings(input.loadings[i]))
                after == SumSeq(top_loadings(output[1].loadings[i]))
            IN /\ after >= 0
               /\ before < 0 =>
                    /\ output[1].factor_scores_raw[i] = 0 - input.factor_scores_raw[i]
                    /\ output[1].loadings[i] =
                          [k \in DOMAIN input.loadings[i] |-> 0 - input.loadings[i][k]]

\* C15: the factor sign-flip step is idempotent: a second run on its own
\* output (scores and loadings) changes neither the scores nor the loadings,
\* for every sign pattern of the loadings.
C15_FlipIsIdempotent ==
    (step = "flip" /\ Len(output) = 2) => output[2] = output[1]

\* C16: in brand_benefit_factor_analysis the number of factors K equals the
\* Kaiser count (the number of eigenvalues of the correlation matrix greater
\* than 1) raised to 3 when it is below 3 and lowered to 6 when it is above
\* 6; for every Kaiser count K is in 3..6.
C16_KaiserFlooredAndCapped ==
    (step = "n_factors" /\ output # <<>>) =>
        LET kaiser == Cardinality({i \in DOMAIN input : input[i] > 10})
        IN /\ output[1] \in 3..6
           /\ kaiser < 3 => output[1] = 3
           /\ kaiser > 6 => output[1] = 6
           /\ kaiser \in 3..6 => output[1] = kaiser

\* a matrix with a single eigenvalue above 1, for which K is raised to 3
C16_Witness ==
    /\ step = "n_factors"
    /\ output = <<3>>
    /\ Cardinality({i \in DOMAIN input : input[i] > 10}) = 1

C18_LabelsPairwiseDistinct ==
    step = "naming" =>
        \A i \in DOMAIN output : \A j \in DOMAIN output :
            i # j => output[i] # output[j]

\* C19: the mediation analyzers report a proportion mediated only when the
\* total effect c is non-zero: when c = 0 no proportion value (not 0 either)
\* is printed or returned, in sem_analysis_real_data and in
\* run_mediation_analysis.
C19_NoProportionWhenTotalIsZero ==
    (step = "mediation" /\ output # <<>> /\ input.c = 0) =>
        output[1].proportions = {}

\* C20: when the Sobel test is significant (p < 0.05), sem_analysis_real_data
\* labels the mediation 'partial' exactly when the direct effect c-prime and
\* path b are both significant, and 'full' exactly when the direct effect is
\* not significant; a significant direct effect, of either sign and any size,
\* is never labelled 'full'.
C20_PartialOrFullBySignificance ==
    (/\ step = "mediation"
     /\ output # <<>>
     /\ input.analyzer = "sem_analysis_real_data"
     /\ input.sobel_p < 50) =>
        /\ output[1].label = "partial" <=> (input.p_direct < 50 /\ input.p_b < 50)
        /\ output[1].label = "full" <=> input.p_direct >= 50

\* C21: every non-missing value returned by recode_funnel_variable(v, 'likert')
\* lies in the 1..7 scale, for every non-missing raw input v the funnel
\* columns can hold (0 and the values above 5 such as 6, 7, 8 included).
C21_RecodedWithinOneToSeven ==
    (/\ rc_pc = "done"
     /\ var_type = "likert"
     /\ value \in 0..8
     /\ ~IsNa(recoded)) => recoded \in Half(1)..Half(7)

\* C22 as stated: top-box coding is idempotent and total on the cleaned
\* domain: for every v in 1..5 and for missing the coding yields a value in
\* {0, 1, missing}, and the coding of its own output is that same output.
C22_TopBoxIdempotent ==
    (tb_pc = "again" /\ (IsNa(tb_raw) \/ tb_raw \in 1..5)) =>
        /\ tb_val[1] \in {0, 1, NaN}
        /\ tb_val[2] = tb_val[1]

\* C22 amended: top-box coding is total on the cleaned domain (a value in
\* {0, 1, missing} for every v in 1..5 and for missing) but not idempotent:
\* the coding of the code 1 is 0, that of the code 0 is missing, and only
\* missing is left as it is.
C22_TopBoxTotalAndSecondCoding ==
    /\ (tb_pc \in {"done", "again"} /\ (IsNa(tb_raw) \/ tb_raw \in 1..5)) =>
          tb_val[1] \in {0, 1, NaN}
    /\ (tb_pc = "again" /\ (IsNa(tb_raw) \/ tb_raw \in 1..5)) =>
          /\ tb_val[1] = 1 => tb_val[2] = 0
          /\ tb_val[1] = 0 => tb_val[2] = NaN
          /\ IsNa(tb_val[1]) => IsNa(tb_val[2])

\* the top answer coded 1, and that code coded 0
C22_Witness == tb_pc = "again" /\ tb_raw = 5 /\ tb_val = <<1, 0>>

\* C23: every factor extraction uses the Kaiser count floored at 3 and capped
\* at 6: the number of factors full_sem_with_benefits and
\* sem_penalized_logistic_topbox extract equals that K for the sample they fit.
C23_ExtractionUsesKaiserCount ==
    (step \in {"full_sem_factors", "topbox_factors"} /\ output # <<>>) =>
        output[1] = optimal_n_factors(input)

\* C24: in the nested F-test of full_sem_with_benefits the funnel-only and the
\* full model are fit on exactly the same n rows, q is the number of factor
\* predictors added, and df_full is n - p_full - 1, p_full being the number of
\* predictors of the full model without the intercept.
C24_NestedFTestDegrees ==
    script = "full_sem" =>
        \A m \in log : m.name = "F-test" =>
            \E r \in calls : \E u \in calls :
                /\ r.name = "m_funnel" /\ u.name = "m_full"
                /\ r.rows = u.rows /\ r.n = u.n
                /\ m.df1 = factor_cols
                /\ m.df2 = u.n - (3 + factor_cols) - 1

\* an F-test reported with positive residual degrees of freedom
C24_Witness ==
    /\ script = "full_sem"
    /\ \E m \in log : m.name = "F-test" /\ m.df1 = 4 /\ m.df2 > 0

\* a battery item that is missing: blank, or one of the raw codes 0 and 99
MissingItem(v) == IsNa(v) \/ v \in {0, 99}

\* C25: in the cluster and factor scripts the fitting sample is nested within
\* and strictly smaller than the composite-eligible sample: every respondent
\* of the fitting sample is eligible (at least one non-missing battery item)
\* and has zero missing battery items, and the fitting sample has fewer
\* respondents than the eligible sample.
C25_FittingSampleNestedAndSmaller ==
    (script \in {"factor", "cluster"} /\ pc # "prepare") =>
        /\ samples.analysis_complete \subseteq samples.analysis_subset
        /\ \A i \in samples.analysis_complete :
              LET items == Battery(RowTypes[i])
              IN /\ \E k \in DOMAIN items : ~MissingItem(items[k])
                 /\ \A k \in DOMAIN items : ~MissingItem(items[k])
        /\ samples.analysis_subset # {} =>
              Size(samples.analysis_complete, data) < Size(samples.analysis_subset, data)

\* C26: every OLS model fit by sem_analysis (run_regression_analysis and the
\* three models of run_mediation_analysis) receives only respondents with no
\* missing value in the outcome or in any predictor, and the three mediation
\* models are fit on the same set of respondents.
C26_ModelsReceiveCompleteCases ==
    /\ \A m \in sem_models : \A i \in m.rows :
          \A col \in {m.outcome} \cup m.predictors : ~ColumnNa(csv[i], col)
    /\ \A m \in sem_models : \A k \in sem_models :
          ({m.name, k.name} \subseteq {"total_model", "a_model", "bc_model"}) =>
              m.rows = k.rows

\* C27: for every standardized coefficient reported for a segment, the
\* standard deviations of predictor and outcome that scale the raw
\* coefficient are computed over exactly the rows used to fit that model,
\* not over a larger pooled sample.
C27_SegmentScaledByItsOwnRows ==
    script \in {"full_sem", "real_data"} =>
        \A r \in segment_results :
            \E c \in calls : /\ c.segment = r.segment
                             /\ c.rows = r.std_rows
                             /\ c.n = Size(r.std_rows, data)

\* C28: the data dictionary written by extract_tdl_data has exactly one entry
\* for every column of the respondent-level table it writes: the set of
\* column_name values equals the set of the field names of the table.
C28_DictionaryCoversTable ==
    (ex_pc = "done" /\ survey_csv # <<>>) =>
        /\ {dict_rows[k].column_name : k \in DOMAIN dict_rows}
               = {fieldnames[k] : k \in DOMAIN fieldnames}
        /\ \A j \in DOMAIN dict_rows : \A k \in DOMAIN dict_rows :
               dict_rows[j].column_name = dict_rows[k].column_name => j = k

\* C30: the category the data dictionary assigns to a variable of COLUMNS does
\* not depend on OFFSET: it is the category of the variable's documented
\* baseline index, the one OFFSET = 0 gives.
C30_CategoryIndependentOfOffset ==
    ex_pc = "done" =>
        \A k \in DOMAIN dict_rows : \A c \in DOMAIN COLUMNS :
            dict_rows[k].column_name = COLUMNS[c].name =>
                dict_rows[k].category = DictCategory(COLUMNS[c].idx - OFFSET)

\* C29: the segment stage never aborts the pipeline, whatever the number of
\* segments that pass the sample-size gate: when fewer than two pass in
\* sem_analysis_real_data, or none in full_sem_with_benefits, the script still
\* reaches its saving and summary steps without raising an error.
C29_SegmentStageNeverAborts ==
    [][(script \in {"real_data", "full_sem"} /\ pc \in {"segments", "save", "summary"})
          => pc' # "error"]_vars

====
